---------------------------- MODULE Spec2Model ----------------------------
(***************************************************************************)
(* unit-nest: the test-case execution engine (TestCaseExecuter) on top of  *)
(* jest's spy primitive.                                                   *)
(*                                                                         *)
(* A slot is one replaceable function: <<object, method name>>.  The       *)
(* objects are the collaborator instances of the compiled testing module,  *)
(* the CUT instance and the required module objects.  A slot holds either  *)
(* its real function ("F") or the jest mock function made for it ("M").    *)
(* jest keeps, per mock function, a queue of one-time implementations, a   *)
(* default implementation and, for a spy, the closure that puts the        *)
(* original back.                                                          *)
(***************************************************************************)
EXTENDS Naturals, Sequences, FiniteSets, TLC

\* ------------------------------------------------------------------ bounds
\* Configurations carried by one case, all kinds together.
MaxConfigs == 3
\* Calls the invoked method body makes during one case.
MaxCalls == 3
\* Distinct functions the invoked method body calls.
MaxCalledSlots == 1
\* Cases run one after the other on the same scope.
MaxCases == 1
\* Objects the invoked method body freezes.
MaxFrozen == 1
\* Suites added to one TestsBuilder, and cases added to one suite.
MaxSuites == 2
MaxSuiteCases == 2
\* Cases of all the suites of one TestsBuilder together.
MaxTotalCases == 3
\* Increments of a counter kept by one CUT instance.
MaxMutations == 2
\* Constructor parameters of one class.
MaxDeps == 2
\* mock* calls made on one CaseBuilder.
MaxBuilderMocks == 2
\* Builder calls of one test file before run().
MaxChainCalls == 6
\* Constructor parameters of all classes of one dependency graph.
MaxEdges == 4

\* ------------------------------------------------------- the scope's objects
\* Collaborator classes given to TestsBuilder.  DepA and DepB are two distinct
\* classes that carry the same class name; Auto is a dependency that was not
\* provided and is auto-mocked; Config is the auto-mocked ConfigService.
RealProviders == {"DepA", "DepB"}
AutoProviders == {"Auto"}
ConfigProviders == {"Config"}
Providers == RealProviders \cup AutoProviders \cup ConfigProviders

\* Function.name of a provider class (mock.provider.name).
ProviderName(p) == IF p \in {"DepA", "DepB"} THEN "Dep" ELSE p

CutObject == "Cut"
Modules == {"axios"}

\* The method under test of the suite.
TargetMethod == "run"

\* Every collaborator has a method m; DepA alone has a method a as well.
CollabSlots == {<<p, "m">> : p \in Providers} \cup {<<"DepA", "a">>}
CutSlots    == {<<CutObject, TargetMethod>>, <<CutObject, "inner">>}
ModuleSlots == {<<"axios", "get">>, <<"axios", "post">>}
Slots       == CollabSlots \cup CutSlots \cup ModuleSlots

\* A method name that exists on no object (a test-authoring mistake).
Absent == "nope"

\* --------------------------------------------------------------- behaviours
\* What a function does when it is called.  A configured behaviour is the
\* configuration's returnType and payload, as captured by the closure handed
\* to jest; the others are the behaviours of functions no case configured.
Kinds == <<"value", "asyncValue", "error", "implementation">>

Beh(k, v)  == [returnType |-> k, value |-> v]
Original   == Beh("original", "-")      \* the real method body
CallThrough == Beh("callThrough", "-")  \* a fresh spy: original.apply(this, arguments)
NoImpl     == Beh("undefined", "-")     \* a mock function without implementation
Initial    == Beh("initial", "-")       \* the implementation given to jest.fn(impl)

\* ---------------------------------------------------------- jest-mock state
NoMock == [once |-> <<>>, impl |-> NoImpl, restorable |-> FALSE]

\* createMockObject: every method of an auto-mocked class is jest.fn()
AutoMockFn == [once |-> <<>>, impl |-> NoImpl, restorable |-> FALSE]

\* createConfigServiceMock: get / getOrThrow / has are jest.fn(impl)
ConfigMockFn == [once |-> <<>>, impl |-> Initial, restorable |-> FALSE]

InitFn == [s \in Slots |-> IF s[1] \in AutoProviders \cup ConfigProviders THEN "M" ELSE "F"]

InitMock == [s \in Slots |->
               IF s[1] \in AutoProviders THEN AutoMockFn
               ELSE IF s[1] \in ConfigProviders THEN ConfigMockFn
               ELSE NoMock]

\* jest.spyOn(object, method): an existing mock function is returned as it is;
\* otherwise the slot gets a new mock function that calls through to the
\* original and remembers how to put it back.
SpyOn(st, s) ==
  IF st.fn[s] = "M" THEN st
  ELSE [st EXCEPT !.fn[s] = "M",
                  !.mock[s] = [once |-> <<>>, impl |-> CallThrough, restorable |-> TRUE]]

\* mockReturnValue / mockResolvedValue / mockImplementation: the default
\* implementation of the mock function.
MockImplementation(st, s, b) == [st EXCEPT !.mock[s].impl = b]

\* mockReturnValueOnce / mockResolvedValueOnce / mockImplementationOnce: one
\* more entry at the end of the queue of one-time implementations.
MockImplementationOnce(st, s, b) == [st EXCEPT !.mock[s].once = Append(@, b)]

\* jest.resetAllMocks() in the place of the reset of one mock function.
MockResetAll(st, s) ==
  [st EXCEPT !.mock = [t \in Slots |-> [st.mock[t] EXCEPT !.once = <<>>, !.impl = NoImpl]]]

\* mockReset: the mock function forgets every implementation.
MockReset(st, s) == [st EXCEPT !.mock[s].once = <<>>, !.mock[s].impl = NoImpl]

\* The objects that hold replaceable functions.
Objects == {s[1] : s \in Slots}

\* The state the finally block works on: the functions, whether a restore
\* has thrown, and the objects that were frozen meanwhile.
Restoring(st, frz) == [fn |-> st.fn, mock |-> st.mock, ok |-> TRUE, frozen |-> frz]

\* mockRestore: mockReset, then the spy's restore closure puts the original
\* function back into the slot (a plain jest.fn has no such closure).  The
\* closure writes a property of the object, which throws a TypeError when the
\* object is frozen.
MockRestore(st, s) ==
  LET r == MockReset(st, s)
  IN  IF ~st.mock[s].restorable THEN r
      ELSE IF s[1] \in st.frozen THEN [r EXCEPT !.ok = FALSE]
      ELSE [r EXCEPT !.fn[s] = "F"]

\* The behaviour of the next call of slot s, and the state after it.
NextBehaviour(st, s) ==
  IF st.fn[s] = "F" THEN Original
  ELSE IF st.mock[s].once # <<>> THEN Head(st.mock[s].once)
  ELSE IF st.mock[s].impl = CallThrough THEN Original
  ELSE st.mock[s].impl

AfterCall(st, s) ==
  IF st.fn[s] = "M" /\ st.mock[s].once # <<>>
  THEN [st EXCEPT !.mock[s].once = Tail(@)]
  ELSE st


\* ------------------------------------------------------------ installation
\* The closure a configuration hands to jest: what a call will do.
ConfiguredBehaviour(cfg) == Beh(cfg.returnType, cfg.value)

\* The switch of the single branch: the configuration becomes the mock
\* function's default implementation.
InstallPermanent(st, s, cfg) ==
  CASE cfg.returnType = "value"          -> MockImplementation(st, s, ConfiguredBehaviour(cfg))
    [] cfg.returnType = "asyncValue"     -> MockImplementation(st, s, ConfiguredBehaviour(cfg))
    [] cfg.returnType = "error"          -> MockImplementation(st, s, ConfiguredBehaviour(cfg))
    [] cfg.returnType = "implementation" -> MockImplementation(st, s, ConfiguredBehaviour(cfg))
    [] OTHER                             -> st

\* The switch of the sequential branch: the configuration is queued as a
\* one-time implementation.
InstallOnce(st, s, cfg) ==
  CASE cfg.returnType = "value"          -> MockImplementationOnce(st, s, ConfiguredBehaviour(cfg))
    [] cfg.returnType = "asyncValue"     -> MockImplementationOnce(st, s, ConfiguredBehaviour(cfg))
    [] cfg.returnType = "error"          -> MockImplementationOnce(st, s, ConfiguredBehaviour(cfg))
    [] cfg.returnType = "implementation" -> MockImplementationOnce(st, s, ConfiguredBehaviour(cfg))
    [] OTHER                             -> st

RECURSIVE InstallChain(_, _, _)
InstallChain(st, s, group) ==
  IF group = <<>> THEN st
  ELSE InstallChain(InstallOnce(st, s, Head(group)), s, Tail(group))

\* One group of configurations on the mock function of slot s.
InstallGroup(st, s, group) ==
  IF Len(group) > 1 THEN InstallChain(st, s, group)
  ELSE InstallPermanent(st, s, group[1])

\* The keys of a Map filled in list order: each key once, in the order of its
\* first occurrence.
RECURSIVE KeysInOrder(_, _)
KeysInOrder(keys, acc) ==
  IF keys = <<>> THEN acc
  ELSE KeysInOrder(Tail(keys),
                   IF \E i \in 1..Len(acc) : acc[i] = Head(keys) THEN acc
                   ELSE Append(acc, Head(keys)))

\* applyMocks: the grouping key `${provider.name}.${method}`.
MockKey(cfg) == <<ProviderName(cfg.provider), cfg.method>>

MockGroupKeys(mocks) == KeysInOrder([i \in 1..Len(mocks) |-> MockKey(mocks[i])], <<>>)

MockGroup(mocks, key) == SelectSeq(mocks, LAMBDA c : MockKey(c) = key)

\* An installation in progress: the jest state, the restore handles
\* collected so far, and whether a step has thrown.
Started(fn0, mock0) == [fn |-> fn0, mock |-> mock0, ok |-> TRUE, handles |-> <<>>]

Plain(inst) == [fn |-> inst.fn, mock |-> inst.mock]

Merge(inst, st) == [inst EXCEPT !.fn = st.fn, !.mock = st.mock]

\* applyMocks: one spy per group, taken on the instance of the group's first
\* configuration; jest.spyOn throws when the instance has no such method.
RECURSIVE ApplyMockGroups(_, _, _)
ApplyMockGroups(inst, mocks, keys) ==
  IF keys = <<>> \/ ~inst.ok THEN inst
  ELSE LET group == MockGroup(mocks, Head(keys))
           first == group[1]
           s     == <<first.provider, first.method>>
       IN  IF s \notin Slots THEN [inst EXCEPT !.ok = FALSE]
           ELSE ApplyMockGroups(
                  [Merge(inst, InstallGroup(SpyOn(Plain(inst), s), s, group))
                     EXCEPT !.handles = Append(@, s)],
                  mocks, Tail(keys))

ApplyMocks(inst, mocks) == ApplyMockGroups(inst, mocks, MockGroupKeys(mocks))

\* applySelfSpies: the same, keyed by the method name, on the CUT instance.
SpyKey(cfg) == cfg.method

SpyGroupKeys(spies) == KeysInOrder([i \in 1..Len(spies) |-> SpyKey(spies[i])], <<>>)

SpyGroup(spies, key) == SelectSeq(spies, LAMBDA c : SpyKey(c) = key)

RECURSIVE ApplySpyGroups(_, _, _)
ApplySpyGroups(inst, spies, keys) ==
  IF keys = <<>> \/ ~inst.ok THEN inst
  ELSE LET group == SpyGroup(spies, Head(keys))
           s     == <<CutObject, group[1].method>>
       IN  IF s \notin Slots THEN [inst EXCEPT !.ok = FALSE]
           ELSE ApplySpyGroups(
                  [Merge(inst, InstallGroup(SpyOn(Plain(inst), s), s, group))
                     EXCEPT !.handles = Append(@, s)],
                  spies, Tail(keys))

\* applySelfSpies left for after the invocation: nothing is installed on the
\* CUT before the method is called.
ApplySelfSpiesLate(inst, spies) == inst

ApplySelfSpies(inst, spies) == ApplySpyGroups(inst, spies, SpyGroupKeys(spies))

\* applyModuleMocks: no grouping.  Every configuration reads the function
\* currently in the slot, spies on the slot, sets the default implementation
\* and pushes its own restore closure.
RECURSIVE ApplyModuleMocks(_, _)
ApplyModuleMocks(inst, moduleMocks) ==
  IF moduleMocks = <<>> \/ ~inst.ok THEN inst
  ELSE LET cfg == Head(moduleMocks)
           s   == <<cfg.moduleName, cfg.method>>
       IN  IF s \notin Slots THEN [inst EXCEPT !.ok = FALSE]
           ELSE ApplyModuleMocks(
                  [Merge(inst, InstallPermanent(SpyOn(Plain(inst), s), s, cfg))
                     EXCEPT !.handles = Append(@, [slot |-> s, originalMethod |-> inst.fn[s]])],
                  Tail(moduleMocks))

\* ------------------------------------------------------------- restoration
\* restoreMocks / restoreSpies: mockRestore on every handle, in order.
RECURSIVE RestoreSpies(_, _)
RestoreSpies(st, spyInstances) ==
  IF spyInstances = <<>> \/ ~st.ok THEN st
  ELSE RestoreSpies(MockRestore(st, Head(spyInstances)), Tail(spyInstances))

RestoreMocks(st, mockInstances) == RestoreSpies(st, mockInstances)

\* One restore closure of applyModuleMocks: spy.mockRestore(), then the
\* function read before spying is written back into the slot.
ModuleRestoreFn(st, h) ==
  LET r == MockRestore(st, h.slot)
  IN  IF ~r.ok THEN r
      ELSE IF h.slot[1] \in st.frozen THEN [r EXCEPT !.ok = FALSE]
      ELSE [r EXCEPT !.fn[h.slot] = h.originalMethod]

RECURSIVE RestoreModuleMocks(_, _)
RestoreModuleMocks(st, restoreFns) ==
  IF restoreFns = <<>> \/ ~st.ok THEN st
  ELSE RestoreModuleMocks(ModuleRestoreFn(st, Head(restoreFns)), Tail(restoreFns))

\* The finally block of executeCase: a restore that throws ends it.
RestoreAll(st, h, frz) ==
  RestoreSpies(RestoreModuleMocks(RestoreMocks(Restoring(st, frz), h.mocks), h.modules),
               h.spies)

\* A mock function that no slot and no handle refers to any more is garbage.
Collect(st) ==
  [st EXCEPT !.mock = [s \in Slots |-> IF st.fn[s] = "F" THEN NoMock ELSE st.mock[s]]]

\* ------------------------------------------------------ values and verdicts
\* Values a method can return or resolve to: two numbers, the object {a: 1},
\* the object {a: 1, b: undefined}, and undefined.  A promise object is what
\* a sync comparison sees when the method is async.
Numbers      == {"one", "two"}
Values       == Numbers \cup {"objA", "objAU", "undef"}
PromiseObject == "promise"

\* Expected values: literal values and the wildcard expect.any(Number).
AnyNumber      == "any(Number)"
ExpectedValues == {"one", "objA", AnyNumber}

\* toEqual ignores properties whose value is undefined.
Normal(v) == IF v = "objAU" THEN "objA" ELSE v

\* expect(actual).toEqual(expected)
ToEqual(actual, expected) ==
  IF expected = AnyNumber THEN actual \in Numbers
  ELSE Normal(actual) = Normal(expected)

\* expect(() => { throw error }).toThrow(): passes when the function threw,
\* whatever it threw.
ToThrow(thrown) == thrown # "nothing"

\* What the invocation of the bound method does, as executeCase sees it.
\*   returned v : a non-promise value v
\*   threw      : a synchronous throw
\*   promise    : a promise-like (it settles later)
Returned(v) == [value |-> v, kind |-> "returned"]
Threw       == [value |-> "-", kind |-> "threw"]
Promise     == [value |-> "-", kind |-> "promise"]
Resolved(v) == [value |-> v, kind |-> "resolved"]
Rejected    == [value |-> "-", kind |-> "rejected"]
NoOutcome   == [value |-> "-", kind |-> "none"]

Passed       == [status |-> "passed", message |-> "-"]
Failed(msg)  == [status |-> "failed", message |-> msg]
NoVerdict    == [status |-> "none", message |-> "-"]
Suspended    == [status |-> "await", message |-> "-"]

\* The error branch with the catch block of the value branch: what was
\* thrown is rethrown as an unexpected error.
ErrorBranchSyncRethrowing(o) ==
  IF o.kind = "promise" THEN Suspended
  ELSE Failed("Unexpected error")

\* The try block of the error branch up to its first await, and its catch.
\* A returned value makes the try block throw its own Error; the catch block
\* receives whatever was thrown and asserts that re-throwing it throws.
ErrorBranchSync(o) ==
  LET thrown == CASE o.kind = "threw"    -> "methodError"
                  [] o.kind = "returned" -> "expectedThrowError"
                  [] OTHER               -> "nothing"
  IN  IF o.kind = "promise" THEN Suspended
      ELSE IF ToThrow(thrown) THEN Passed ELSE Failed("toThrow")

\* After the await of expect(result).rejects.toThrow(): a resolved promise
\* makes the matcher throw; the same catch block receives that.
ErrorBranchSettled(o) ==
  LET thrown == CASE o.kind = "resolved" -> "matcherError"
                  [] OTHER               -> "nothing"
  IN  IF thrown = "nothing" THEN Passed
      ELSE IF ToThrow(thrown) THEN Passed ELSE Failed("toThrow")

\* The value branch with a catch block that swallows what was thrown.
ValueBranchSyncSwallowing(exp, o) ==
  IF o.kind = "threw" THEN Passed
  ELSE IF exp.isAsync THEN Suspended
  ELSE LET result == IF o.kind = "promise" THEN PromiseObject ELSE o.value
       IN  IF ToEqual(result, exp.expected) THEN Passed ELSE Failed("Unexpected error")

\* The try block of the value branch up to its first await, and its catch,
\* which rethrows everything as "Unexpected error".
ValueBranchSync(exp, o) ==
  IF o.kind = "threw" THEN Failed("Unexpected error")
  ELSE IF exp.isAsync THEN Suspended
  ELSE LET result == IF o.kind = "promise" THEN PromiseObject ELSE o.value
       IN  IF ToEqual(result, exp.expected) THEN Passed ELSE Failed("Unexpected error")

\* The value branch comparing with toBe (identity) instead of toEqual.
ValueBranchSettledToBe(exp, o) ==
  IF o.kind = "rejected" THEN Failed("Unexpected error")
  ELSE IF o.value = exp.expected THEN Passed ELSE Failed("Unexpected error")

\* After result = await result.
ValueBranchSettled(exp, o) ==
  IF o.kind = "rejected" THEN Failed("Unexpected error")
  ELSE IF ToEqual(o.value, exp.expected) THEN Passed ELSE Failed("Unexpected error")

\* The error branch asserting .toThrow(expectation.error): what a synchronous
\* throw carries is compared with the payload given to expectThrow.
EvaluateSyncMatching(exp, o) ==
  IF exp.hasError
  THEN IF o.kind = "threw" /\ o.value # exp.error THEN Failed("toThrow")
       ELSE ErrorBranchSync(o)
  ELSE ValueBranchSync(exp, o)

\* executeCase from the invocation to its first suspension or its end.
EvaluateSync(exp, o) ==
  IF exp.hasError THEN ErrorBranchSync(o) ELSE ValueBranchSync(exp, o)

\* executeCase after its await.
EvaluateSettled(exp, o) ==
  IF exp.hasError THEN ErrorBranchSettled(o) ELSE ValueBranchSettled(exp, o)

\* ------------------------------------------------------------ the cases
\* Payloads are told apart by the position of their configuration.
MockPayloads   == <<"m1", "m2", "m3", "m4", "m5">>
ModulePayloads == <<"x1", "x2", "x3", "x4", "x5">>
SpyPayloads    == <<"s1", "s2", "s3", "s4", "s5">>

\* The i-th configuration of a list is made with the (i + first)-th of the
\* four builder methods of its flavour.
KindAt(i, first) == Kinds[((i - 1 + first) % 4) + 1]

\* CaseBuilder.mockReturnValue / mockReturnAsyncValue / mockThrow /
\* mockImplementation, called on the targets in order.
BuildMocks(targets) ==
  [i \in 1..Len(targets) |->
     [returnType |-> KindAt(i, 0), value |-> MockPayloads[i],
      provider |-> targets[i][1], method |-> targets[i][2]]]

\* CaseBuilder.mockModuleReturn / mockModuleReturnAsync / mockModuleThrow /
\* mockModuleImplementation
BuildModuleMocks(targets) ==
  [i \in 1..Len(targets) |->
     [returnType |-> KindAt(i, 1), value |-> ModulePayloads[i],
      method |-> targets[i][2], moduleName |-> targets[i][1]]]

\* CaseBuilder.spyOnSelf / spyOnSelfAsync / spyOnSelfThrow /
\* spyOnSelfImplementation
BuildSpies(targets) ==
  [i \in 1..Len(targets) |->
     [returnType |-> KindAt(i, 2), value |-> SpyPayloads[i], method |-> targets[i]]]

\* CaseBuilder.expectThrow / expectReturn / expectAsync
ExpectThrow        == [expected |-> "-", isAsync |-> FALSE, hasError |-> TRUE]
ExpectReturn(v)    == [expected |-> v, isAsync |-> FALSE, hasError |-> FALSE]
ExpectAsync(v)     == [expected |-> v, isAsync |-> TRUE, hasError |-> FALSE]
Expectations ==
  {ExpectThrow} \cup {ExpectReturn(v) : v \in ExpectedValues}
                \cup {ExpectAsync(v) : v \in ExpectedValues}

\* CaseBuilder.case
BuildCase(ms, xs, ss, exp) ==
  [mocks |-> ms, spies |-> ss, moduleMocks |-> xs, expectation |-> exp]

NoCase == BuildCase(<<>>, <<>>, <<>>, ExpectThrow)

MockTargets   == CollabSlots \cup {<<"DepB", "a">>}
ModuleTargets == ModuleSlots \cup {<<"axios", Absent>>}
SpyTargets    == {TargetMethod, "inner", Absent}

SeqsUpTo(S, n) == UNION {[1..k -> S] : k \in 0..n}

NoHandles == [mocks |-> <<>>, spies |-> <<>>, modules |-> <<>>]

\* ------------------------------------------------------------------ state
VARIABLES
  fn,        \* slot -> "F" | "M": the function the slot holds
  mock,      \* slot -> the state of the slot's mock function
  pc,        \* the executor: "idle" | "installed" | "invoke" | "await" | "done"
  cur,       \* the case being executed (the last one, when done)
  handles,   \* mockInstances, moduleRestoreFns, spyInstances of the case
  pre,       \* fn and mock as they were when executeCase was entered
  body,      \* the invoked method body: "none" | "sync" | "pending"
  awaited,   \* what the awaited promise is known to deliver (NoOutcome: open)
  calls,     \* slot -> calls the running method body has made
  obs,       \* the last invocation: slot, its number, its behaviour
  outcome,   \* what the invocation of the method under test did
  verdict,   \* how the host runner reports the case
  caseNo,    \* cases started so far
  stale,     \* a method body executeCase did not wait for is still running
  frozen,    \* objects the method body has frozen
  declared,  \* suiteStore.suites: the number of cases of every suite
  registered, \* the describe blocks the host runner knows, with their it blocks
  runner,    \* the host runner: the describe block and the it block it is at
  inst,      \* describe block -> its cutInstance (0: not compiled yet)
  cutState,  \* CUT instance -> the counter it keeps
  executed,  \* the it blocks entered so far, in order
  run,       \* what the case being executed found when it started
  prev,      \* the case executed before it, and the CUT state it left
  configErrors, \* the describe blocks with a case that failed to install
  orphan,    \* the handles of an executeCase the host runner stopped waiting for
  hook,      \* describe block -> its beforeAll: "none" | "pending" | "done" | "failed"
  compilations, \* describe block -> the calls of compileTestingModule made for it
  auto,      \* the TestsBuilder constructor: its classes, its worklist, the auto-mocks made
  builder,   \* a CaseBuilder, the stores it fills and what they held at run()
  chain      \* the builder objects of a test file, their stores and the calls made

\* What the host runner keeps besides the blocks.
hostVars == <<orphan, hook, compilations>>

\* What the builders keep.
builderVars == <<auto, builder, chain>>

suiteVars == <<declared, registered, runner, inst, cutState, executed, run, prev,
               configErrors, hostVars, builderVars>>

vars == <<fn, mock, pc, cur, handles, pre, body, awaited, calls, obs, outcome,
          verdict, caseNo, stale, frozen, suiteVars>>

NoObs == [slot |-> <<"-", "-">>, n |-> 0, beh |-> NoImpl, installed |-> FALSE]

NoCalls == [s \in Slots |-> 0]

RECURSIVE SumOver(_, _)
SumOver(f, S) ==
  IF S = {} THEN 0
  ELSE LET x == CHOOSE y \in S : TRUE IN f[x] + SumOver(f, S \ {x})

TargetSlot == <<CutObject, TargetMethod>>

\* Calls the method body has made.
TotalCalls == SumOver(calls, Slots)

\* The functions the method body has called.
CalledSlots == {s \in Slots : calls[s] > 0}

\* Invocations of slot s since the installation: the calls of the body and
\* the invocation executeCase makes itself.
Invocations(s) ==
  calls[s] + (IF s = TargetSlot /\ pc \in {"invoke", "await"} THEN 1 ELSE 0)

\* The expectations tried with a case: all of them for a case without
\* configurations, one of each shape otherwise.
ExpectationsOf(n) ==
  IF n = 0 THEN Expectations
  ELSE {ExpectThrow, ExpectReturn("one"), ExpectAsync("one")}

\* Identifiers of CUT instances: enough for every compilation and every it
\* block.
Instances == 1..(MaxSuites + MaxTotalCases)

NoRun == [suite |-> 0, case |-> 0, cut |-> 0, seen |-> 0, clean |-> TRUE, pending |-> FALSE]

NoPrev == [suite |-> 0, cut |-> 0, left |-> 0]

\* The TestsBuilder constructor has not been followed.
NoAuto ==
  [mocks |-> <<>>, deps |-> <<>>, provided |-> {}, done |-> FALSE,
   seeded |-> FALSE, stack |-> <<>>, processed |-> <<>>, visited |-> <<>>]

\* A CaseBuilder just made by addCase(): testMocks is empty, no expectation
\* is set, the stores are empty.
Unset == [expected |-> "unset", isAsync |-> FALSE, hasError |-> FALSE]

NoBuilder ==
  [mocks |-> <<>>, expectation |-> Unset, cases |-> <<>>, suiteDone |-> FALSE,
   ran |-> FALSE, atRun |-> <<>>]

\* A test file that has made its TestsBuilder and nothing else: no
\* SuiteBuilder, no CaseBuilder, an empty TestSuiteStore, no describe block.
NoChain ==
  [suiteBuilders |-> <<>>, caseBuilders |-> <<>>, caseStores |-> <<>>,
   suiteStore |-> <<>>, log |-> <<>>, blocks |-> <<>>, started |-> FALSE]

\* The state before TestsBuilder.run(): the builder holds the given suites.
InitWith(suites) ==
  /\ frozen = {}
  /\ declared = suites
  /\ registered = <<>>
  /\ runner = [suite |-> 0, case |-> 0]
  /\ inst = [i \in 1..MaxSuites |-> 0]
  /\ cutState = [i \in Instances |-> 0]
  /\ executed = <<>>
  /\ run = NoRun
  /\ prev = NoPrev
  /\ configErrors = {}
  /\ orphan = NoHandles
  /\ hook = [i \in 1..MaxSuites |-> "none"]
  /\ compilations = [i \in 1..MaxSuites |-> 0]
  /\ auto = NoAuto
  /\ builder = NoBuilder
  /\ chain = NoChain

\* The scope and the executor before any case.
InitCase ==
  /\ fn = InitFn
  /\ mock = InitMock
  /\ pc = "idle"
  /\ cur = NoCase
  /\ handles = NoHandles
  /\ pre = [fn |-> InitFn, mock |-> InitMock]
  /\ body = "none"
  /\ awaited = NoOutcome
  /\ calls = NoCalls
  /\ obs = NoObs
  /\ outcome = NoOutcome
  /\ verdict = NoVerdict
  /\ caseNo = 0
  /\ stale = FALSE

\* One compiled scope on which cases are executed, no suite declared.
Init ==
  /\ InitWith(<<>>)
  /\ InitCase

\* ---------------------------------------------------------------- actions
\* The behaviours that run user code, which may call other functions and end
\* any way it likes.
UserCode == {"original", "implementation", "initial"}

\* What a call of a configured mock function does by itself.
MockOutcome(b) ==
  CASE b.returnType = "value"      -> Returned(b.value)
    [] b.returnType = "asyncValue" -> Promise
    [] b.returnType = "error"      -> Threw
    [] OTHER                       -> Returned("undef")

\* executeCase runs on from the invocation's outcome o: either it suspends at
\* an await with its replacements installed, or it reaches its finally block,
\* restores and ends with verdict res, or with the error of a restore that
\* threw.
Proceed(st, h, res, o, fromBody, fate) ==
  IF res = Suspended
  THEN /\ fn' = st.fn
       /\ mock' = st.mock
       /\ pc' = "await"
       /\ handles' = h
       /\ verdict' = NoVerdict
       /\ body' = IF fromBody /\ o.kind = "promise" THEN "pending" ELSE "none"
       /\ awaited' = fate
       /\ stale' = stale
       /\ calls' = calls
       /\ obs' = obs
  ELSE LET final == Collect(RestoreAll(st, h, frozen))
       IN  /\ fn' = final.fn
           /\ mock' = final.mock
           /\ pc' = "done"
           /\ handles' = NoHandles
           /\ verdict' = IF final.ok THEN res ELSE Failed("restore")
           /\ body' = "none"
           /\ awaited' = NoOutcome
           /\ stale' = (stale \/ (fromBody /\ o.kind = "promise"))
           /\ calls' = NoCalls
           /\ obs' = NoObs

\* The `it` callback enters executeCase(method, testCase, testingModule,
\* cutInstance), which installs the replacements of the case.  An
\* installation that throws ends executeCase before its try block is entered.
EnterCase(c) ==
  /\ pc = "idle"
  /\ cur' = c
  /\ caseNo' = caseNo + 1
  /\ pre' = [fn |-> fn, mock |-> mock]
  /\ LET i1 == ApplyMocks(Started(fn, mock), c.mocks)
         i2 == ApplyModuleMocks([i1 EXCEPT !.handles = <<>>], c.moduleMocks)
         i3 == ApplySelfSpies([i2 EXCEPT !.handles = <<>>], c.spies)
     IN  /\ fn' = i3.fn
         /\ mock' = i3.mock
         /\ IF i3.ok
            THEN /\ pc' = "installed"
                 /\ handles' = [mocks |-> i1.handles, spies |-> i3.handles,
                                modules |-> i2.handles]
                 /\ verdict' = NoVerdict
            ELSE /\ pc' = "done"
                 /\ handles' = NoHandles
                 /\ verdict' = Failed("configuration")
  /\ calls' = NoCalls
  /\ obs' = NoObs
  /\ outcome' = NoOutcome
  /\ UNCHANGED <<body, awaited, stale, frozen>>

\* A case executed on the scope as it is.
StartCase(c) ==
  /\ caseNo < MaxCases
  /\ EnterCase(c)
  /\ UNCHANGED suiteVars

\* executeCase calls the bound method with the inputs of the case.
Invoke ==
  /\ pc = "installed"
  /\ LET st0 == [fn |-> fn, mock |-> mock]
         b   == NextBehaviour(st0, TargetSlot)
         st  == AfterCall(st0, TargetSlot)
     IN  IF b.returnType \in UserCode
         THEN /\ fn' = st.fn
              /\ mock' = st.mock
              /\ pc' = "invoke"
              /\ body' = "sync"
              /\ obs' = [slot |-> TargetSlot, n |-> 1, beh |-> b, installed |-> TRUE]
              /\ UNCHANGED <<handles, outcome, verdict, awaited, stale, calls>>
         ELSE LET o == MockOutcome(b)
              IN  /\ outcome' = o
                  /\ Proceed(st, handles, EvaluateSync(cur.expectation, o), o, FALSE,
                             IF o.kind = "promise" THEN Resolved(b.value)
                             ELSE Resolved(o.value))
  /\ UNCHANGED <<cur, pre, caseNo, frozen, suiteVars>>

\* The running method body calls a collaborator method, a CUT method or a
\* module function.
Call(s) ==
  /\ pc \in {"invoke", "await"}
  /\ body \in {"sync", "pending"}
  /\ TotalCalls < MaxCalls
  /\ Cardinality(CalledSlots \cup {s}) <= MaxCalledSlots
  /\ LET st == [fn |-> fn, mock |-> mock]
     IN  /\ obs' = [slot |-> s, n |-> Invocations(s) + 1, beh |-> NextBehaviour(st, s),
                    installed |-> TRUE]
         /\ fn' = AfterCall(st, s).fn
         /\ mock' = AfterCall(st, s).mock
  /\ calls' = [calls EXCEPT ![s] = @ + 1]
  /\ UNCHANGED <<pc, cur, handles, pre, body, awaited, outcome, verdict, caseNo, stale,
                 frozen, suiteVars>>

\* The method body returns a value that is no promise.
ReturnValue(v) ==
  /\ pc = "invoke" /\ body = "sync"
  /\ outcome' = Returned(v)
  /\ Proceed([fn |-> fn, mock |-> mock], handles,
             EvaluateSync(cur.expectation, Returned(v)), Returned(v), TRUE, Resolved(v))
  /\ UNCHANGED <<cur, pre, caseNo, frozen, suiteVars>>

\* The method body throws.
ThrowSync ==
  /\ pc = "invoke" /\ body = "sync"
  /\ outcome' = Threw
  /\ Proceed([fn |-> fn, mock |-> mock], handles,
             EvaluateSync(cur.expectation, Threw), Threw, TRUE, NoOutcome)
  /\ UNCHANGED <<cur, pre, caseNo, frozen, suiteVars>>

\* The method body returns a promise (an async method at its first await, or
\* at its end).
ReturnPromise ==
  /\ pc = "invoke" /\ body = "sync"
  /\ outcome' = Promise
  /\ Proceed([fn |-> fn, mock |-> mock], handles,
             EvaluateSync(cur.expectation, Promise), Promise, TRUE, NoOutcome)
  /\ UNCHANGED <<cur, pre, caseNo, frozen, suiteVars>>

\* The promise the method body returned settles and executeCase resumes.
Settle(o) ==
  /\ pc = "await" /\ body = "pending"
  /\ outcome' = o
  /\ Proceed([fn |-> fn, mock |-> mock], handles,
             EvaluateSettled(cur.expectation, o), o, FALSE, NoOutcome)
  /\ UNCHANGED <<cur, pre, caseNo, frozen, suiteVars>>

\* executeCase resumes from the await of a value that was no promise, or of
\* the promise a mockResolvedValue made.
Resume ==
  /\ pc = "await" /\ body = "none" /\ awaited # NoOutcome
  /\ outcome' = IF outcome.kind = "promise" THEN awaited ELSE outcome
  /\ Proceed([fn |-> fn, mock |-> mock], handles,
             EvaluateSettled(cur.expectation, awaited), awaited, FALSE, NoOutcome)
  /\ UNCHANGED <<cur, pre, caseNo, frozen, suiteVars>>

\* An async method body that executeCase did not wait for goes on calling.
\* It runs between the callbacks of the host runner or while executeCase is
\* suspended, never inside the run from the installation to the invocation.
StaleCall(s) ==
  /\ stale
  /\ pc \in {"idle", "done", "await"}
  /\ TotalCalls < MaxCalls
  /\ Cardinality(CalledSlots \cup {s}) <= MaxCalledSlots
  /\ LET st == [fn |-> fn, mock |-> mock]
     IN  /\ obs' = [slot |-> s, n |-> calls[s] + 1, beh |-> NextBehaviour(st, s),
                    installed |-> pc = "await"]
         /\ fn' = AfterCall(st, s).fn
         /\ mock' = AfterCall(st, s).mock
  /\ calls' = [calls EXCEPT ![s] = @ + 1]
  /\ UNCHANGED <<pc, cur, handles, pre, body, awaited, outcome, verdict, caseNo, stale,
                 frozen, suiteVars>>

\* ... and ends.
StaleEnd ==
  /\ stale
  /\ pc \in {"idle", "done", "await"}
  /\ stale' = FALSE
  /\ UNCHANGED <<fn, mock, pc, cur, handles, pre, body, awaited, calls, obs, outcome,
                 verdict, caseNo, frozen, suiteVars>>

\* The host runner has recorded the verdict of the `it` block and goes on.
Reported ==
  /\ pc = "done"
  /\ pc' = "idle"
  /\ cur' = NoCase
  /\ pre' = [fn |-> fn, mock |-> mock]
  /\ outcome' = NoOutcome
  /\ verdict' = NoVerdict
  /\ UNCHANGED <<fn, mock, handles, body, awaited, calls, obs, caseNo, stale, frozen>>

CaseReported ==
  /\ Reported
  /\ UNCHANGED suiteVars

Next ==
  \/ \E tm \in SeqsUpTo(MockTargets, MaxConfigs) :
       \E tx \in SeqsUpTo(ModuleTargets, MaxConfigs - Len(tm)) :
         \E ts \in SeqsUpTo(SpyTargets, MaxConfigs - Len(tm) - Len(tx)) :
           \E exp \in ExpectationsOf(Len(tm) + Len(tx) + Len(ts)) :
             StartCase(BuildCase(BuildMocks(tm), BuildModuleMocks(tx), BuildSpies(ts), exp))
  \/ Invoke
  \/ CaseReported
  \/ \E s \in Slots : Call(s)
  \/ \E v \in Values : ReturnValue(v)
  \/ ThrowSync
  \/ ReturnPromise
  \/ \E o \in {Resolved(v) : v \in Values} \cup {Rejected} : Settle(o)
  \/ Resume
  \/ \E s \in Slots : StaleCall(s)
  \/ StaleEnd

Spec == Init /\ [][Next]_vars

\* The cases whose verdict rests on the method under test alone: no
\* collaborator and no module function is replaced, the method under test
\* runs its own body or is self-spied to throw, and every expectation is tried.
VerdictCase ==
  \E ts \in SeqsUpTo({TargetMethod}, 1) :
    \E exp \in Expectations :
      StartCase(BuildCase(<<>>, <<>>, BuildSpies(ts), exp))

VerdictNext ==
  \/ VerdictCase
  \/ Invoke
  \/ CaseReported
  \/ \E s \in Slots : Call(s)
  \/ \E v \in Values : ReturnValue(v)
  \/ ThrowSync
  \/ ReturnPromise
  \/ \E o \in {Resolved(v) : v \in Values} \cup {Rejected} : Settle(o)
  \/ Resume
  \/ \E s \in Slots : StaleCall(s)
  \/ StaleEnd

VerdictSpec == Init /\ [][VerdictNext]_vars

\* The method body freezes an object it can reach (Object.freeze): from then
\* on a restore that writes or deletes a property of that object throws.
Freeze(o) ==
  /\ pc \in {"invoke", "await"}
  /\ body \in {"sync", "pending"}
  /\ o \notin frozen
  /\ Cardinality(frozen) < MaxFrozen
  /\ frozen' = frozen \cup {o}
  /\ UNCHANGED <<fn, mock, pc, cur, handles, pre, body, awaited, calls, obs, outcome,
                 verdict, caseNo, stale, suiteVars>>

\* The cases whose restoration is looked at: at most one replacement of each
\* of the three kinds, each on a target of its own.
RestoreCase ==
  \E tm \in SeqsUpTo({<<"DepA", "m">>}, 1) :
    \E tx \in SeqsUpTo({<<"axios", "get">>}, 1) :
      \E ts \in SeqsUpTo({"inner"}, 1) :
        \E exp \in ExpectationsOf(1) :
          StartCase(BuildCase(BuildMocks(tm), BuildModuleMocks(tx), BuildSpies(ts), exp))

RestoreNext ==
  \/ RestoreCase
  \/ Invoke
  \/ CaseReported
  \/ \E o \in Objects : Freeze(o)
  \/ \E s \in Slots : Call(s)
  \/ \E v \in Values : ReturnValue(v)
  \/ ThrowSync
  \/ ReturnPromise
  \/ \E o \in {Resolved(v) : v \in Values} \cup {Rejected} : Settle(o)
  \/ Resume
  \/ \E s \in Slots : StaleCall(s)
  \/ StaleEnd

RestoreSpec == Init /\ [][RestoreNext]_vars

\* The same cases with a method body that freezes nothing and stops calling
\* when executeCase ends: every restore succeeds.
FrameNext ==
  \/ RestoreCase
  \/ Invoke
  \/ CaseReported
  \/ \E s \in Slots : Call(s)
  \/ \E v \in {"one", "two"} : ReturnValue(v)
  \/ ThrowSync
  \/ ReturnPromise
  \/ \E o \in {Resolved(v) : v \in {"one", "two"}} \cup {Rejected} : Settle(o)
  \/ Resume
  \/ StaleEnd

FrameSpec == Init /\ [][FrameNext]_vars

\* ------------------------------------------------------------------ suites
\* The suites a TestsBuilder can hold: each with at least one case.
SuiteShapes ==
  {shape \in UNION {[1..k -> 1..MaxSuiteCases] : k \in 1..MaxSuites} :
     SumOver(shape, DOMAIN shape) <= MaxTotalCases}

\* executeSuite registers one it block per case of the suite.
ItBlocksFirstOnly(n) == 1

ItBlocks(n) == n

\* compileTestingModule builds a new scope at every call: the n-th
\* compilation constructs a CUT instance no earlier one returned.
CompileTestingModuleCached(n) == 1

CompileTestingModule(n) == n + 1

Compiled == Cardinality({i \in 1..MaxSuites : inst[i] # 0})

\* The it callback of the k-th entered block passes the cutInstance its
\* describe block got in beforeAll.
CutInstancePerCase(ins, suite, k) == MaxSuites + k

CutInstance(ins, suite, k) == ins[suite]

\* The objects a compilation constructs: the CUT and the class providers.
\* Auto-mocks are values created once by the TestsBuilder, module objects
\* belong to the process.
ScopeObjects == RealProviders \cup {CutObject}

\* The it blocks in declaration order.
RECURSIVE Positions(_, _)
Positions(shape, i) ==
  IF i > Len(shape) THEN <<>>
  ELSE [j \in 1..shape[i] |-> <<i, j>>] \o Positions(shape, i + 1)

\* TestsBuilder.run(): TestsExecuter.execute maps executeSuite over the suites
\* inside Promise.all. Each executeSuite runs to its end synchronously: it
\* calls describe, which registers beforeAll and the it blocks, and runs none.
RegisterBlocks ==
  /\ pc = "idle"
  /\ declared # <<>>
  /\ registered = <<>>
  /\ registered' = [i \in 1..Len(declared) |-> ItBlocks(declared[i])]

Execute ==
  /\ RegisterBlocks
  /\ UNCHANGED <<fn, mock, pc, cur, handles, pre, body, awaited, calls, obs, outcome,
                 verdict, caseNo, stale, frozen, declared, runner, inst, cutState,
                 executed, run, prev, configErrors, hostVars, builderVars>>

\* The host runner enters the next describe block and runs its beforeAll.
BeforeAll ==
  /\ pc = "idle"
  /\ runner.suite < Len(registered)
  /\ IF runner.suite = 0 THEN TRUE ELSE runner.case = registered[runner.suite]
  /\ LET i == runner.suite + 1
     IN  /\ runner' = [suite |-> i, case |-> 0]
         /\ inst' = [inst EXCEPT ![i] = CompileTestingModule(Compiled)]
  /\ fn' = [s \in Slots |-> IF s[1] \in ScopeObjects THEN InitFn[s] ELSE fn[s]]
  /\ mock' = [s \in Slots |-> IF s[1] \in ScopeObjects THEN InitMock[s] ELSE mock[s]]
  /\ pre' = [fn |-> fn', mock |-> mock']
  /\ frozen' = frozen \ ScopeObjects
  /\ UNCHANGED <<pc, cur, handles, body, awaited, calls, obs, outcome, verdict, caseNo,
                 stale, declared, registered, cutState, executed, run, prev,
                 configErrors, hostVars, builderVars>>

\* The host runner enters the next it block of the describe block: the
\* callback calls executeCase with the cutInstance of the block.
EnterBlock(c) ==
  /\ runner.suite >= 1
  /\ runner.case < registered[runner.suite]
  /\ EnterCase(c)
  /\ LET id == CutInstance(inst, runner.suite, Len(executed) + 1)
     IN  run' = [suite   |-> runner.suite,
                 case    |-> runner.case + 1,
                 cut     |-> id,
                 seen    |-> IF id = 0 THEN 0 ELSE cutState[id],
                 clean   |-> \A s \in Slots : fn[s] = InitFn[s],
                 pending |-> stale]
  /\ runner' = [runner EXCEPT !.case = @ + 1]
  /\ executed' = Append(executed, <<runner.suite, runner.case + 1>>)
  /\ UNCHANGED <<declared, registered, inst, cutState, prev, configErrors, builderVars>>

RunCase(c) ==
  /\ EnterBlock(c)
  /\ UNCHANGED hostVars

\* The method under test increments the counter its instance keeps.
Mutate ==
  /\ pc \in {"invoke", "await"}
  /\ body \in {"sync", "pending"}
  /\ run.cut # 0
  /\ cutState[run.cut] < MaxMutations
  /\ cutState' = [cutState EXCEPT ![run.cut] = @ + 1]
  /\ UNCHANGED <<fn, mock, pc, cur, handles, pre, body, awaited, calls, obs, outcome,
                 verdict, caseNo, stale, frozen, declared, registered, runner, inst,
                 executed, run, prev, configErrors, hostVars, builderVars>>

\* The promise of the it callback settles and the host runner records the
\* result of the block.
SuiteCaseReported ==
  /\ Reported
  /\ prev' = [suite |-> run.suite, cut |-> run.cut,
              left |-> IF run.cut = 0 THEN 0 ELSE cutState[run.cut]]
  /\ configErrors' = IF verdict = Failed("configuration")
                     THEN configErrors \cup {run.suite}
                     ELSE configErrors
  /\ run' = NoRun
  /\ UNCHANGED <<declared, registered, runner, inst, cutState, executed, hostVars,
                 builderVars>>

\* The cases of the suites: no replacement, a collaborator mock, a self-spy
\* on a method the CUT does not have, or both.
SuiteCase ==
  \E tm \in SeqsUpTo({<<"DepA", "m">>}, 1) :
    \E ts \in SeqsUpTo({Absent}, 1) :
      \E exp \in ExpectationsOf(1) :
        RunCase(BuildCase(BuildMocks(tm), <<>>, BuildSpies(ts), exp))

\* What the method under test returns in the suites: the expected value or
\* another one. It calls no collaborator.
SuiteValues == {"one", "two"}

SuiteInit ==
  /\ \E shape \in SuiteShapes : InitWith(shape)
  /\ InitCase

SuiteNext ==
  \/ Execute
  \/ BeforeAll
  \/ SuiteCase
  \/ Invoke
  \/ Mutate
  \/ SuiteCaseReported
  \/ \E v \in SuiteValues : ReturnValue(v)
  \/ ThrowSync
  \/ ReturnPromise
  \/ \E o \in {Resolved(v) : v \in SuiteValues} \cup {Rejected} : Settle(o)
  \/ Resume
  \/ StaleEnd

SuiteSpec == SuiteInit /\ [][SuiteNext]_vars

\* The host runner runs every registered block to its end, and the method
\* under test returns, throws or settles its promise.
LiveSuiteSpec == SuiteSpec /\ WF_vars(SuiteNext)

\* ------------------------------------------------------------- properties
\* executeCase has run its finally block (its installation did not throw).
Finished == pc = "done" /\ verdict # Failed("configuration")

Now == [fn |-> fn, mock |-> mock]

\* The configurations of the current case that name slot s, in declaration
\* order: by provider identity and method, by CUT method, by module and
\* function.
ConfigsOf(s) ==
  IF s \in CollabSlots
  THEN SelectSeq(cur.mocks, LAMBDA c : <<c.provider, c.method>> = s)
  ELSE IF s \in CutSlots
  THEN SelectSeq(cur.spies, LAMBDA c : c.method = s[2])
  ELSE SelectSeq(cur.moduleMocks, LAMBDA c : <<c.moduleName, c.method>> = s)

\* The invocation last observed was an invocation of s made while the
\* replacements of the case were installed.
Observed(s) == obs.installed /\ obs.slot = s

\* C1: once executeCase has finished, every module function is the function
\* reference it was before the case started, also when the case carried two
\* or more configurations for the same (moduleName, method).  Stated for the
\* cases whose installation succeeded.
C1_ModuleFunctionRestored ==
  Finished => \A s \in ModuleSlots : fn[s] = pre.fn[s]

\* C2: when executeCase finishes, whatever the outcome of the invocation and
\* of the comparison, every collaborator method and every CUT method that a
\* configuration of the case names behaves as it did before the case.
C2_PreCaseBehaviourRestored ==
  Finished =>
    \A s \in CollabSlots \cup CutSlots :
      ConfigsOf(s) # <<>> => NextBehaviour(Now, s) = NextBehaviour(pre, s)

\* C3: a case that expects a throw is reported as failed whenever the target
\* method returned a non-promise value or a promise that resolved.
C3_ExpectThrowFailsOnReturn ==
  (Finished /\ cur.expectation.hasError /\ outcome.kind \in {"returned", "resolved"})
    => verdict.status = "failed"

\* C4: a case that expects a throw is reported as passed when the target
\* method threw synchronously and when the promise it returned rejected.
C4_ExpectThrowPassesOnThrow ==
  (Finished /\ cur.expectation.hasError /\ outcome.kind \in {"threw", "rejected"})
    => verdict = Passed

C4_Witness ==
  /\ Finished /\ cur.expectation.hasError
  /\ outcome.kind = "rejected"
  /\ verdict = Passed

\* C5: with N >= 2 configurations for the same collaborator (provider,
\* method) or the same self-spied CUT method, the n-th invocation of that
\* method during the case (n <= N) behaves as the n-th configuration.
C5_ChainInDeclarationOrder ==
  \A s \in CollabSlots \cup CutSlots :
    (Observed(s) /\ Len(ConfigsOf(s)) >= 2 /\ obs.n <= Len(ConfigsOf(s)))
      => obs.beh = ConfiguredBehaviour(ConfigsOf(s)[obs.n])

\* C6: with N >= 2 configurations for the same collaborator (provider,
\* method) or self-spied method, every invocation after the N-th behaves as
\* the N-th configuration.
C6_AfterChainLastConfiguration ==
  \A s \in CollabSlots \cup CutSlots :
    (Observed(s) /\ Len(ConfigsOf(s)) >= 2 /\ obs.n > Len(ConfigsOf(s)))
      => obs.beh = ConfiguredBehaviour(ConfigsOf(s)[Len(ConfigsOf(s))])

\* C7: two or more module-mock configurations for the same (moduleName,
\* method) form one chain: the n-th call of the module function during the
\* case behaves as the n-th configuration.
C7_ModuleChainInDeclarationOrder ==
  \A s \in ModuleSlots :
    (Observed(s) /\ Len(ConfigsOf(s)) >= 2 /\ obs.n <= Len(ConfigsOf(s)))
      => obs.beh = ConfiguredBehaviour(ConfigsOf(s)[obs.n])

\* C8: with exactly one configuration for a target (collaborator method,
\* self-spied method or module function), every invocation of the target
\* between installation and restoration behaves as that configuration.
C8_SingleConfigurationEveryInvocation ==
  \A s \in Slots :
    (Observed(s) /\ Len(ConfigsOf(s)) = 1)
      => obs.beh = ConfiguredBehaviour(ConfigsOf(s)[1])

\* C9: a case that expects an async value and whose target method returned a
\* promise that resolved is reported as passed if and only if the resolved
\* value equals the expected value under toEqual.
C9_ExpectAsyncPassesIffEqual ==
  (Finished /\ ~cur.expectation.hasError /\ cur.expectation.isAsync
            /\ outcome.kind = "resolved")
    => (verdict = Passed <=> ToEqual(outcome.value, cur.expectation.expected))

C9_Witness ==
  /\ Finished /\ ~cur.expectation.hasError /\ cur.expectation.isAsync
  /\ outcome.kind = "resolved"
  /\ outcome.value # cur.expectation.expected
  /\ verdict = Passed

\* C10: a case that expects a value is never reported as passed when the
\* target method threw synchronously, nor, when it expects an async value,
\* when the returned promise rejected.
C10_ValueExpectationFailsOnThrow ==
  (Finished /\ ~cur.expectation.hasError
            /\ (outcome.kind = "threw"
                \/ (cur.expectation.isAsync /\ outcome.kind = "rejected")))
    => verdict.status = "failed"

C10_Witness ==
  /\ Finished /\ ~cur.expectation.hasError /\ cur.expectation.isAsync
  /\ outcome.kind = "rejected"
  /\ verdict.status = "failed"

\* A configuration of the current case names a method that its own target
\* (the provider's instance, the module, the CUT) does not have.
NamesAbsentMethod ==
  \/ \E i \in 1..Len(cur.mocks) : <<cur.mocks[i].provider, cur.mocks[i].method>> \notin Slots
  \/ \E i \in 1..Len(cur.moduleMocks) :
       <<cur.moduleMocks[i].moduleName, cur.moduleMocks[i].method>> \notin Slots
  \/ \E i \in 1..Len(cur.spies) : <<CutObject, cur.spies[i].method>> \notin Slots

\* C11: within one suite every case runs against the same CUT instance, so
\* the state a case left on the instance is the state the next case of the
\* suite finds: a case after the first one of its suite runs against the
\* instance of the case before it and sees the counter that case left.
C11_SuiteSharesCutInstance ==
  run.case > 1 => /\ prev.suite = run.suite
                  /\ run.cut = prev.cut
                  /\ run.seen = prev.left

\* The second case of a suite has started after the first one incremented the
\* counter.
C11_Witness ==
  /\ run.case > 1
  /\ pc = "invoke"
  /\ prev.left > 0
  /\ run.seen = prev.left

\* C12: each suite compiles its own scope: the CUT instances of two suites
\* differ, a case never runs against the instance of a case of another suite,
\* and the first case of every suite finds the initial state of the CUT.
C12_SuitesAreIsolated ==
  /\ \A i, j \in 1..MaxSuites : (i # j /\ inst[i] # 0) => inst[i] # inst[j]
  /\ (run.suite # 0 /\ prev.suite # 0 /\ prev.suite # run.suite) => run.cut # prev.cut
  /\ run.case = 1 => run.seen = 0

\* The first case of the second suite has started after a case of the first
\* suite incremented the counter of its instance.
C12_Witness ==
  /\ run.suite = 2
  /\ run.case = 1
  /\ pc = "invoke"
  /\ prev.suite = 1
  /\ prev.left > 0
  /\ run.seen = 0

\* C13: every case of a suite is eventually executed, in declaration order,
\* whatever the outcome of the cases before it: the it blocks entered so far
\* are always a prefix of the declared cases in declaration order, and in the
\* end every declared case has been entered.
C13_EveryCaseInDeclarationOrder ==
  /\ [](\E n \in 0..Len(Positions(declared, 1)) :
          executed = SubSeq(Positions(declared, 1), 1, n))
  /\ <>(executed = Positions(declared, 1))

\* The second case of a suite invokes its method after the first case of the
\* suite failed to install its replacements.
C13_Witness ==
  /\ run.case = 2
  /\ run.suite \in configErrors
  /\ executed[Len(executed)] = <<run.suite, 2>>
  /\ pc = "invoke"

\* C14: when the restore of one replacement throws, the restore of every other
\* replacement of the case is still attempted: once executeCase has ended with
\* the error of a restore, every method of an object that is not frozen is
\* back to what it was before the case.
C14_EveryRestoreAttempted ==
  (pc = "done" /\ verdict = Failed("restore"))
    => \A s \in Slots : s[1] \notin frozen => fn[s] = pre.fn[s]

\* C15: when the installation of a case fails after other replacements of
\* the case were installed, those replacements are restored before
\* executeCase fails: every function is, and behaves, as before the case.
C15_FailedInstallationRestored ==
  (pc = "done" /\ verdict = Failed("configuration"))
    => \A s \in Slots : /\ fn[s] = pre.fn[s]
                        /\ NextBehaviour(Now, s) = NextBehaviour(pre, s)

\* C16: a case with a configuration that names a method its target does not
\* have never gets as far as invoking the method under test, and is reported
\* as failed, whatever its expectation.
C16_AbsentMethodFailsBeforeInvocation ==
  NamesAbsentMethod
    => /\ pc = "done"
       /\ verdict.status = "failed"
       /\ outcome = NoOutcome

\* C17: a configuration naming an unknown method, provider or token is a
\* fatal pre-execution error of the suite: once a case of a suite has failed
\* to install its replacements, no case of that suite invokes its target.
C17_ConfigurationErrorAbortsSuite ==
  run.suite \in configErrors => /\ pc \notin {"invoke", "await"}
                                /\ outcome = NoOutcome

\* C18: under a value expectation a returned or resolved value that does not
\* equal the expected value is not reported as an "Unexpected error", the
\* kind that reports a throw or a rejection.
C18_MismatchIsNoUnexpectedError ==
  (Finished /\ ~cur.expectation.hasError
            /\ outcome.kind \in {"returned", "resolved"}
            /\ verdict.status = "failed")
    => verdict.message # "Unexpected error"

\* C19: collaborator configurations are grouped by provider identity: once
\* the case is installed, every provider instance that a configuration names
\* holds a replacement of its own, whose first behaviour is the first
\* configuration given for that provider and method.
C19_GroupedByProviderIdentity ==
  pc = "installed" =>
    \A s \in CollabSlots :
      ConfigsOf(s) # <<>> =>
        /\ fn[s] = "M"
        /\ NextBehaviour(Now, s) = ConfiguredBehaviour(ConfigsOf(s)[1])

\* C20: with the host runner running the registered blocks one at a time, no
\* two cases have replacements installed at the same time and no case
\* installs while the invocation of another case is pending: when a case
\* with a collaborator mock starts, no slot holds a replacement an earlier
\* case installed and no method body an earlier case invoked is still running.
C20_OneCaseInstalledAtATime ==
  (run.suite # 0 /\ cur.mocks # <<>>) => /\ run.clean
                                         /\ ~run.pending

\* C24: whenever the method under test returns a promise, executeCase awaits
\* it before it evaluates the expectation and before it restores: when
\* executeCase has ended, the promise the method returned has settled and the
\* verdict was made on what it settled to.
C24_ReturnedPromiseAwaited ==
  Finished => outcome.kind # "promise"

\* The slots the restore handles of the running case stand for.
HandleSlots ==
  {handles.mocks[i] : i \in 1..Len(handles.mocks)}
    \cup {handles.modules[i].slot : i \in 1..Len(handles.modules)}
    \cup {handles.spies[i] : i \in 1..Len(handles.spies)}

\* C28: executeCase installs, invokes, evaluates and restores in this order:
\* while the method under test is being invoked every group of collaborator
\* mocks, every module mock and every group of self-spies of the case has been
\* installed; as long as no verdict has been determined every replacement of
\* the case is still in its slot; and a case whose installation failed never
\* invoked the method.
C28_InstallInvokeEvaluateRestore ==
  /\ pc \in {"invoke", "await"} =>
       /\ Len(handles.mocks) = Len(MockGroupKeys(cur.mocks))
       /\ Len(handles.modules) = Len(cur.moduleMocks)
       /\ Len(handles.spies) = Len(SpyGroupKeys(cur.spies))
  /\ (pc \in {"installed", "invoke", "await"} /\ verdict = NoVerdict) =>
       \A s \in HandleSlots : fn[s] = "M"
  /\ verdict # NoVerdict => pc = "done"
  /\ verdict = Failed("configuration") => outcome = NoOutcome

\* executeCase is suspended at its await with a collaborator mock, a module
\* mock and a self-spy installed.
C28_Witness ==
  /\ pc = "await"
  /\ cur.mocks # <<>> /\ cur.moduleMocks # <<>> /\ cur.spies # <<>>
  /\ Cardinality(HandleSlots) = 3
  /\ \A s \in HandleSlots : fn[s] = "M"

\* A case with an {expected, isAsync: false} expectation is being executed.
ExpectReturnCase ==
  /\ pc # "idle"
  /\ ~cur.expectation.hasError
  /\ ~cur.expectation.isAsync

\* C29: under an {expected, isAsync: false} expectation executeCase never
\* suspends, and installation, invocation, comparison and restoration are
\* one uninterrupted step: executeCase is never at an await, and once it has
\* ended every slot holds the function it held before the case, so nothing
\* else runs while a replacement of the case is installed.
C29_ExpectReturnIsOneStep ==
  ExpectReturnCase =>
    /\ pc # "await"
    /\ pc = "done" => \A s \in Slots : fn[s] = pre.fn[s]

\* C23: installing the replacements of a case changes only the targeted
\* slots: during the case and after it every slot that no configuration of
\* the case names holds the function and the mock state it had before the
\* case, so it behaves as before.
C23_OnlyTargetedSlotsChange ==
  pc # "idle" =>
    \A s \in Slots :
      ConfigsOf(s) = <<>> => /\ fn[s] = pre.fn[s]
                             /\ mock[s] = pre.mock[s]
                             /\ NextBehaviour(Now, s) = NextBehaviour(pre, s)

\* With a collaborator mock, a module mock and a self-spy installed, the
\* method body has called a function no configuration names and found its
\* behaviour of before the case.
C23_Witness ==
  /\ pc \in {"invoke", "await"}
  /\ cur.mocks # <<>> /\ cur.moduleMocks # <<>> /\ cur.spies # <<>>
  /\ obs.slot \in Slots
  /\ ConfigsOf(obs.slot) = <<>>
  /\ obs.beh = NextBehaviour(pre, obs.slot)

\* ------------------------------------------------- the payload of expectThrow
\* The errors a case hands to expectThrow and a method body throws or
\* rejects with.
ErrorPayloads == {"x", "boom"}

\* CaseBuilder.expectThrow(error): the expectation keeps the payload.
ExpectThrowError(e) ==
  [expected |-> "-", isAsync |-> FALSE, hasError |-> TRUE, error |-> e]

ThrewError(e)    == [value |-> e, kind |-> "threw"]
RejectedError(e) == [value |-> e, kind |-> "rejected"]

\* The method body throws new Error(e).
ThrowError(e) ==
  /\ pc = "invoke" /\ body = "sync"
  /\ outcome' = ThrewError(e)
  /\ Proceed([fn |-> fn, mock |-> mock], handles,
             EvaluateSync(cur.expectation, ThrewError(e)), ThrewError(e), TRUE, NoOutcome)
  /\ UNCHANGED <<cur, pre, caseNo, frozen, suiteVars>>

\* The cases of tests/expectations.spec.ts, suites 'throws' and 'rejects':
\* nothing is replaced, or the method under test is self-spied with one of
\* the four spyOnSelf methods, and the expectation is expectThrow with one of
\* the payloads.
PayloadSpies ==
  {<<>>} \cup {<<[returnType |-> k, value |-> SpyPayloads[1], method |-> TargetMethod]>> :
                  k \in {Kinds[i] : i \in 1..4}}

PayloadCase ==
  \E ss \in PayloadSpies :
    \E e \in ErrorPayloads :
      StartCase(BuildCase(<<>>, <<>>, ss, ExpectThrowError(e)))

PayloadNext ==
  \/ PayloadCase
  \/ Invoke
  \/ CaseReported
  \/ \E s \in Slots : Call(s)
  \/ \E v \in Values : ReturnValue(v)
  \/ \E e \in ErrorPayloads : ThrowError(e)
  \/ ReturnPromise
  \/ \E o \in {Resolved(v) : v \in Values} \cup {RejectedError(e) : e \in ErrorPayloads} :
       Settle(o)
  \/ Resume

PayloadSpec == Init /\ [][PayloadNext]_vars

\* The verdict executeCase reaches on the outcome of this case under the
\* expectation exp.
VerdictUnder(exp) ==
  IF outcome.kind \in {"resolved", "rejected"} THEN EvaluateSettled(exp, outcome)
  ELSE EvaluateSync(exp, outcome)

Timeout ==
  /\ pc = "await" /\ body = "pending"
  /\ orphan = NoHandles
  /\ orphan' = handles
  /\ pc' = "done"
  /\ handles' = NoHandles
  /\ verdict' = Failed("timeout")
  /\ body' = "none"
  /\ UNCHANGED <<fn, mock, cur, pre, awaited, calls, obs, outcome, caseNo, stale, frozen,
                 declared, registered, runner, inst, cutState, executed, run, prev,
                 configErrors, hook, compilations, builderVars>>

\* The promise of a case that timed out settles after all: the suspended
\* executeCase resumes between two callbacks of the host runner or while
\* another executeCase is suspended, and its finally block restores through
\* the handles it holds. Its verdict is reported to nobody.
LateSettle ==
  /\ orphan # NoHandles
  /\ pc \in {"idle", "done", "await"}
  /\ LET final == Collect(RestoreAll([fn |-> fn, mock |-> mock], orphan, frozen))
     IN  /\ fn' = final.fn
         /\ mock' = final.mock
  /\ orphan' = NoHandles
  /\ UNCHANGED <<pc, cur, handles, pre, body, awaited, calls, obs, outcome, verdict,
                 caseNo, stale, frozen, declared, registered, runner, inst, cutState,
                 executed, run, prev, configErrors, hook, compilations, builderVars>>

TimeoutNext ==
  \/ SuiteNext
  \/ Timeout
  \/ LateSettle

TimeoutSpec == SuiteInit /\ [][TimeoutNext]_vars

\* C21: no case starts its installation while an earlier case, whose promise
\* did not settle before the per-case timeout, still has its replacements
\* installed: at every installation every earlier case has been restored.
C21_RestoredBeforeNextInstallation ==
  pc \in {"installed", "invoke", "await"} => orphan = NoHandles

\* ------------------------------------------------ the beforeAll of a suite
\* The host runner calls the callback of an it block once the beforeAll of
\* its describe block has resolved. While the hook is pending it waits; when
\* the hook rejected it reports every it block of the describe block as
\* failed and calls none of the callbacks.
BodyRunsAfterFailure(h) == h \in {"done", "failed"}

BodyRuns(h) == h = "done"

\* The it callback calls executeCase and nothing else: it makes no call of
\* compileTestingModule.
CaseCompilationsPerCase(n) == n + 1

CaseCompilations(n) == n

\* The host runner enters the next describe block and calls its beforeAll,
\* which calls compileTestingModule and suspends at its await.
BeforeAllStart ==
  /\ pc = "idle"
  /\ runner.suite < Len(registered)
  /\ IF runner.suite = 0 THEN TRUE ELSE runner.case = registered[runner.suite]
  /\ LET i == runner.suite + 1
     IN  /\ runner' = [suite |-> i, case |-> 0]
         /\ hook' = [hook EXCEPT ![i] = "pending"]
         /\ compilations' = [compilations EXCEPT ![i] = @ + 1]
  /\ UNCHANGED <<fn, mock, pc, cur, handles, pre, body, awaited, calls, obs, outcome,
                 verdict, caseNo, stale, frozen, declared, registered, inst, cutState,
                 executed, run, prev, configErrors, orphan, builderVars>>

\* moduleBuilder.compile() resolves: beforeAll assigns testingModule and
\* cutInstance and resolves.
CompileSucceeds ==
  /\ runner.suite >= 1
  /\ hook[runner.suite] = "pending"
  /\ hook' = [hook EXCEPT ![runner.suite] = "done"]
  /\ inst' = [inst EXCEPT ![runner.suite] = CompileTestingModule(Compiled)]
  /\ fn' = [s \in Slots |-> IF s[1] \in ScopeObjects THEN InitFn[s] ELSE fn[s]]
  /\ mock' = [s \in Slots |-> IF s[1] \in ScopeObjects THEN InitMock[s] ELSE mock[s]]
  /\ pre' = [fn |-> fn', mock |-> mock']
  /\ frozen' = frozen \ ScopeObjects
  /\ UNCHANGED <<pc, cur, handles, body, awaited, calls, obs, outcome, verdict, caseNo,
                 stale, declared, registered, runner, cutState, executed, run, prev,
                 configErrors, orphan, compilations, builderVars>>

\* moduleBuilder.compile() rejects (a token cannot be resolved, the CUT
\* constructor throws): beforeAll rejects, testingModule and cutInstance stay
\* undefined.
CompileFails ==
  /\ runner.suite >= 1
  /\ hook[runner.suite] = "pending"
  /\ hook' = [hook EXCEPT ![runner.suite] = "failed"]
  /\ UNCHANGED <<fn, mock, pc, cur, handles, pre, body, awaited, calls, obs, outcome,
                 verdict, caseNo, stale, frozen, declared, registered, runner, inst,
                 cutState, executed, run, prev, configErrors, orphan, compilations,
                 builderVars>>

\* The host runner calls the callback of the next it block.
CompileCase ==
  /\ runner.suite >= 1
  /\ BodyRuns(hook[runner.suite])
  /\ \E tm \in SeqsUpTo({<<"DepA", "m">>}, 1) :
       \E ts \in SeqsUpTo({Absent}, 1) :
         \E exp \in ExpectationsOf(1) :
           EnterBlock(BuildCase(BuildMocks(tm), <<>>, BuildSpies(ts), exp))
  /\ compilations' = [compilations EXCEPT ![runner.suite] = CaseCompilations(@)]
  /\ UNCHANGED <<orphan, hook>>

\* The host runner reports the next it block of a describe block whose
\* beforeAll rejected: the block fails with the error of the hook.
SkipCase ==
  /\ pc = "idle"
  /\ runner.suite >= 1
  /\ hook[runner.suite] = "failed"
  /\ runner.case < registered[runner.suite]
  /\ runner' = [runner EXCEPT !.case = @ + 1]
  /\ run' = [NoRun EXCEPT !.suite = runner.suite, !.case = runner.case + 1]
  /\ pc' = "done"
  /\ verdict' = Failed("beforeAll")
  /\ UNCHANGED <<fn, mock, cur, handles, pre, body, awaited, calls, obs, outcome, caseNo,
                 stale, frozen, declared, registered, inst, cutState, executed, prev,
                 configErrors, hostVars, builderVars>>

CompileNext ==
  \/ Execute
  \/ BeforeAllStart
  \/ CompileSucceeds
  \/ CompileFails
  \/ CompileCase
  \/ SkipCase
  \/ Invoke
  \/ Mutate
  \/ SuiteCaseReported
  \/ \E v \in SuiteValues : ReturnValue(v)
  \/ ThrowSync
  \/ ReturnPromise
  \/ \E o \in {Resolved(v) : v \in SuiteValues} \cup {Rejected} : Settle(o)
  \/ Resume
  \/ StaleEnd

CompileSpec == SuiteInit /\ [][CompileNext]_vars

\* The describe blocks whose beforeAll rejected.
CompileFailed == {i \in 1..MaxSuites : hook[i] = "failed"}

\* C22: when the compilation of a suite's scope fails, no it block of the
\* suite is entered, so none installs a replacement or invokes the method
\* under test, and every block of the suite the host runner reports is
\* reported as failed.
C22_CompileFailureRunsNoCase ==
  /\ \A k \in 1..Len(executed) : executed[k][1] \notin CompileFailed
  /\ run.suite \in CompileFailed =>
       /\ pc = "done"
       /\ verdict.status = "failed"
       /\ handles = NoHandles
       /\ outcome = NoOutcome
       /\ fn = pre.fn

C22_Witness ==
  /\ run.suite \in CompileFailed
  /\ run.case = 2
  /\ verdict = Failed("beforeAll")
  /\ Len(executed) > 0

\* C27: compileTestingModule is called at most once for a suite, and while a
\* case of the suite is being executed that one call has been made and has
\* completed: the suite has its cutInstance before the first case installs.
C27_CompiledOnceBeforeFirstCase ==
  /\ \A i \in 1..MaxSuites : compilations[i] <= 1
  /\ (run.suite # 0 /\ pc \in {"installed", "invoke", "await"}) =>
       /\ compilations[run.suite] = 1
       /\ hook[run.suite] = "done"
       /\ inst[run.suite] # 0
       /\ run.cut = inst[run.suite]

C27_Witness ==
  /\ run.suite # 0
  /\ run.case = 2
  /\ pc = "invoke"
  /\ compilations[run.suite] = 1

\* --------------------------------------------------- AutoMockResolver
\* The classes of a constructor-dependency graph: the CUT, the collaborator
\* classes and ConfigService. A constructor parameter is a class or
\* something injected by token (a string, a symbol, a built-in type).
Classes == {CutObject} \cup RealProviders \cup ConfigProviders

Token == "TOKEN"

\* design:paramtypes of a class: its constructor parameters in order.
ParamTypes ==
  {ps \in SeqsUpTo(Classes \cup {Token}, MaxDeps) :
     \A i, j \in 1..Len(ps) : ps[i] = ps[j] => i = j}

\* The graphs: ConfigService takes no class.
DependencyGraphs ==
  {g \in [Classes -> ParamTypes] : \A c \in ConfigProviders : g[c] = <<>>}

Range(seq) == {seq[i] : i \in 1..Len(seq)}

\* AutoMockResolver.isConfigService
IsConfigService(c) == c \in ConfigProviders

\* AutoMockResolver.extractConstructorDependencies: the parameters that are
\* classes.
ExtractConstructorDependencies(g, c) == SelectSeq(g[c], LAMBDA d : d # Token)

\* The for loop over the dependencies of one provider, from the i-th on.
RECURSIVE ProcessDependencies(_, _, _, _)
ProcessDependencies(ds, i, stack, processed) ==
  IF i > Len(ds) THEN [stack |-> stack, processed |-> processed]
  ELSE IF ds[i] \in Range(processed)
       THEN ProcessDependencies(ds, i + 1, stack, processed)
       ELSE IF IsConfigService(ds[i])
            THEN ProcessDependencies(ds, i + 1, stack, Append(processed, ds[i]))
            ELSE ProcessDependencies(ds, i + 1, Append(stack, ds[i]), processed)

\* The while loop over providersToProcess; processedProviders is kept in
\* insertion order, as a Set iterates.
RECURSIVE Discover(_, _, _)
Discover(g, stack, processed) ==
  IF stack = <<>> THEN processed
  ELSE LET provider == stack[Len(stack)]
           rest     == SubSeq(stack, 1, Len(stack) - 1)
       IN  IF provider \in Range(processed) THEN Discover(g, rest, processed)
           ELSE LET r == ProcessDependencies(ExtractConstructorDependencies(g, provider),
                                             1, rest, Append(processed, provider))
                IN  Discover(g, r.stack, r.processed)

\* The auto-mock of a class and the mock made for ConfigService.
MockOf(c)       == [provide |-> c, useValue |-> "mockObject"]
ConfigMockOf(c) == [provide |-> c, useValue |-> "configServiceMock"]

\* The loop that creates the mocks: a class that is ConfigService is set
\* aside before providedSet is looked at, and the last one set aside gets
\* the ConfigService mock.
CreateMocks(processed, providedSet) ==
  LET plain   == SelectSeq(processed,
                           LAMBDA c : ~IsConfigService(c) /\ c \notin providedSet)
      configs == SelectSeq(processed, LAMBDA c : IsConfigService(c))
  IN  [i \in 1..Len(plain) |-> MockOf(plain[i])]
        \o (IF configs = <<>> THEN <<>> ELSE <<ConfigMockOf(configs[Len(configs)])>>)

\* AutoMockResolver.createAutoMocks(providedProviders, cut)
CreateAutoMocks(g, providedProviders, cut) ==
  LET allProviders == <<cut>> \o providedProviders
  IN  CreateMocks(Discover(g, allProviders, <<>>), Range(allProviders))

\* The class providers handed to TestsBuilder after the CUT, in order.
ProvidedLists ==
  {ps \in SeqsUpTo(Classes \ {CutObject}, Cardinality(Classes) - 1) :
     \A i, j \in 1..Len(ps) : ps[i] = ps[j] => i = j}

\* new TestsBuilder(cut, ...providers) over one of the given dependency
\* graphs, with one of the given lists of class providers.
AutoInitWith(graphs, lists) ==
  /\ frozen = {}
  /\ declared = <<>>
  /\ registered = <<>>
  /\ runner = [suite |-> 0, case |-> 0]
  /\ inst = [i \in 1..MaxSuites |-> 0]
  /\ cutState = [i \in Instances |-> 0]
  /\ executed = <<>>
  /\ run = NoRun
  /\ prev = NoPrev
  /\ configErrors = {}
  /\ orphan = NoHandles
  /\ hook = [i \in 1..MaxSuites |-> "none"]
  /\ compilations = [i \in 1..MaxSuites |-> 0]
  /\ builder = NoBuilder
  /\ chain = NoChain
  /\ InitCase
  /\ \E g \in graphs :
       \E ps \in lists :
         auto = [NoAuto EXCEPT !.deps = g, !.provided = ps]

AutoInit == AutoInitWith(DependencyGraphs, ProvidedLists)

\* The constructor of TestsBuilder calls createAutoMocks.
Construct ==
  /\ ~auto.done
  /\ auto.deps # <<>>
  /\ auto' = [auto EXCEPT !.mocks = CreateAutoMocks(auto.deps, auto.provided, CutObject),
                          !.done = TRUE]
  /\ UNCHANGED <<fn, mock, pc, cur, handles, pre, body, awaited, calls, obs, outcome,
                 verdict, caseNo, stale, frozen, declared, registered, runner, inst,
                 cutState, executed, run, prev, configErrors, hostVars, builder, chain>>

AutoNext == Construct

AutoSpec == AutoInit /\ [][AutoNext]_vars

\* The classes reachable from the classes of S through constructor
\* parameters, the classes of S included.
RECURSIVE Reachable(_, _)
Reachable(g, S) ==
  LET T == S \cup UNION {Range(ExtractConstructorDependencies(g, c)) : c \in S}
  IN  IF T = S THEN S ELSE Reachable(g, T)

\* The auto-mocks made for class c.
MocksFor(c) == {i \in 1..Len(auto.mocks) : auto.mocks[i].provide = c}

\* C26: createAutoMocks returns exactly one auto-mock for every class that
\* is reachable from the CUT or a provided class and is neither the CUT nor
\* provided, and none for the CUT or a provided class.
C26_OneAutoMockPerMissingClass ==
  auto.done =>
    LET given   == {CutObject} \cup Range(auto.provided)
        missing == Reachable(auto.deps, given) \ given
    IN  \A c \in Classes :
          Cardinality(MocksFor(c)) = IF c \in missing THEN 1 ELSE 0

\* ------------------------------------------------------------ the builders
\* One CaseBuilder of one suite, kept by the test file. A TestCase object
\* made by the case getter holds the expectation of that moment and the
\* testMocks array itself; the TestSuite object made by the suite getter
\* holds the array of the TestCaseStore itself.
StoredCase(k) ==
  BuildCase(BuildMocks(builder.mocks), <<>>, <<>>, builder.cases[k])

StoredCases == [k \in 1..Len(builder.cases) |-> StoredCase(k)]

\* The builder calls are synchronous code of the test file: they run before
\* the host runner enters the first block.
Collecting == runner.suite = 0 /\ pc = "idle"

\* CaseBuilder.mockReturnValue and its siblings: this.testMocks.push(...)
BuilderMock ==
  /\ Collecting
  /\ Len(builder.mocks) < MaxBuilderMocks
  /\ builder' = [builder EXCEPT !.mocks = Append(@, <<"DepA", "m">>)]
  /\ UNCHANGED <<fn, mock, pc, cur, handles, pre, body, awaited, calls, obs, outcome,
                 verdict, caseNo, stale, frozen, declared, registered, runner, inst,
                 cutState, executed, run, prev, configErrors, hostVars, auto, chain>>

\* CaseBuilder.expectReturn / expectAsync / expectThrow: this.testExpectation
\* is assigned a new object.
BuilderExpect(exp) ==
  /\ Collecting
  /\ builder.expectation # exp
  /\ builder' = [builder EXCEPT !.expectation = exp]
  /\ UNCHANGED <<fn, mock, pc, cur, handles, pre, body, awaited, calls, obs, outcome,
                 verdict, caseNo, stale, frozen, declared, registered, runner, inst,
                 cutState, executed, run, prev, configErrors, hostVars, auto, chain>>

\* CaseBuilder.doneCase(): caseStore.addTestCase(this.case). When the suite
\* has been stored, its cases are this same array.
DoneCase ==
  /\ Collecting
  /\ builder.expectation # Unset
  /\ Len(builder.cases) < MaxSuiteCases
  /\ builder' = [builder EXCEPT !.cases = Append(@, builder.expectation)]
  /\ declared' = IF builder.suiteDone THEN <<Len(builder.cases) + 1>> ELSE declared
  /\ UNCHANGED <<fn, mock, pc, cur, handles, pre, body, awaited, calls, obs, outcome,
                 verdict, caseNo, stale, frozen, registered, runner, inst,
                 cutState, executed, run, prev, configErrors, hostVars, auto, chain>>

\* SuiteBuilder.doneSuite(): suiteStore.addTestSuite(this.suite)
DoneSuite ==
  /\ Collecting
  /\ ~builder.suiteDone
  /\ builder.cases # <<>>
  /\ builder' = [builder EXCEPT !.suiteDone = TRUE]
  /\ declared' = <<Len(builder.cases)>>
  /\ UNCHANGED <<fn, mock, pc, cur, handles, pre, body, awaited, calls, obs, outcome,
                 verdict, caseNo, stale, frozen, registered, runner, inst,
                 cutState, executed, run, prev, configErrors, hostVars, auto, chain>>

\* TestsBuilder.run(); what the stores hold at this moment is remembered.
BuilderRun ==
  /\ RegisterBlocks
  /\ builder' = [builder EXCEPT !.ran = TRUE, !.atRun = StoredCases]
  /\ UNCHANGED <<fn, mock, pc, cur, handles, pre, body, awaited, calls, obs, outcome,
                 verdict, caseNo, stale, frozen, declared, runner, inst, cutState,
                 executed, run, prev, configErrors, hostVars, auto, chain>>

\* The host runner calls the callback of the next it block: it passes the
\* TestCase object the loop of executeSuite closed over, which executeCase
\* destructures now.
BuilderCase ==
  /\ runner.suite >= 1
  /\ runner.case < registered[runner.suite]
  /\ RunCase(StoredCase(runner.case + 1))

BuilderNext ==
  \/ BuilderMock
  \/ \E exp \in ExpectationsOf(1) : BuilderExpect(exp)
  \/ DoneCase
  \/ DoneSuite
  \/ BuilderRun
  \/ BeforeAll
  \/ BuilderCase
  \/ Invoke
  \/ SuiteCaseReported
  \/ \E v \in SuiteValues : ReturnValue(v)
  \/ ThrowSync
  \/ ReturnPromise
  \/ \E o \in {Resolved(v) : v \in SuiteValues} \cup {Rejected} : Settle(o)
  \/ Resume
  \/ StaleEnd

BuilderSpec == Init /\ [][BuilderNext]_vars

\* C30: after TestsBuilder.run() no call on the CaseBuilder or the
\* SuiteBuilder changes the suite: the registered blocks are the cases the
\* stores held at run(), and every block executes the configuration its
\* case had at run().
C30_SuiteImmutableAfterRun ==
  builder.ran =>
    /\ registered = <<Len(builder.atRun)>>
    /\ (run.suite # 0 /\ pc \in {"installed", "invoke", "await"}) =>
         cur = builder.atRun[run.case]

\* ------------------------------------------------- the stores of the builders
\* The objects of one test file. suiteBuilders[s] is the method of the s-th
\* SuiteBuilder made by addSuite, caseStores[s] the testCases array of its
\* TestCaseStore, caseBuilders[c] the SuiteBuilder the c-th CaseBuilder was
\* made by. An entry of a testCases array is the CaseBuilder whose case
\* getter made it; an entry of suiteStore is the SuiteBuilder whose suite
\* getter made it, and its cases are that builder's testCases array itself.
ChainMethods(i) == IF i % 2 = 1 THEN TargetMethod ELSE "inner"

\* The builder calls made so far, run() apart.
ChainCalls ==
  Len(chain.suiteBuilders) + Len(chain.caseBuilders) + Len(chain.log)

MoreCalls == ~chain.started /\ ChainCalls < MaxChainCalls

\* TestSuiteStore.addTestSuite: a set semantics, one entry per suite object.
AddTestSuiteOnce(store, suite) ==
  IF \E i \in 1..Len(store) : store[i] = suite THEN store ELSE Append(store, suite)

\* TestSuiteStore.addTestSuite / TestCaseStore.addTestCase: push
AddTestSuite(store, suite) == Append(store, suite)

AddTestCase(store, case) == Append(store, case)

\* TestsBuilder.addSuite(method): new SuiteBuilder, with a new TestCaseStore
AddSuite ==
  /\ MoreCalls
  /\ Len(chain.suiteBuilders) < MaxSuites
  /\ chain' = [chain EXCEPT
                 !.suiteBuilders = Append(@, ChainMethods(Len(@) + 1)),
                 !.caseStores = Append(@, <<>>)]
  /\ UNCHANGED <<fn, mock, pc, cur, handles, pre, body, awaited, calls, obs, outcome,
                 verdict, caseNo, stale, frozen, declared, registered, runner, inst,
                 cutState, executed, run, prev, configErrors, hostVars, auto, builder>>

\* SuiteBuilder.addCase(): new CaseBuilder(this, this.caseStore)
AddCase(s) ==
  /\ MoreCalls
  /\ Len(SelectSeq(chain.caseBuilders, LAMBDA b : b = s)) < MaxSuiteCases
  /\ chain' = [chain EXCEPT !.caseBuilders = Append(@, s)]
  /\ UNCHANGED <<fn, mock, pc, cur, handles, pre, body, awaited, calls, obs, outcome,
                 verdict, caseNo, stale, frozen, declared, registered, runner, inst,
                 cutState, executed, run, prev, configErrors, hostVars, auto, builder>>

\* CaseBuilder.doneCase(): this.caseStore.addTestCase(this.case)
ChainDoneCase(c) ==
  /\ MoreCalls
  /\ chain' = [chain EXCEPT
                 !.caseStores[chain.caseBuilders[c]] = AddTestCase(@, c),
                 !.log = Append(@, <<"doneCase", c>>)]
  /\ UNCHANGED <<fn, mock, pc, cur, handles, pre, body, awaited, calls, obs, outcome,
                 verdict, caseNo, stale, frozen, declared, registered, runner, inst,
                 cutState, executed, run, prev, configErrors, hostVars, auto, builder>>

\* SuiteBuilder.doneSuite(): this.suiteStore.addTestSuite(this.suite)
ChainDoneSuite(s) ==
  /\ MoreCalls
  /\ chain' = [chain EXCEPT
                 !.suiteStore = AddTestSuite(@, s),
                 !.log = Append(@, <<"doneSuite", s>>)]
  /\ UNCHANGED <<fn, mock, pc, cur, handles, pre, body, awaited, calls, obs, outcome,
                 verdict, caseNo, stale, frozen, declared, registered, runner, inst,
                 cutState, executed, run, prev, configErrors, hostVars, auto, builder>>

\* TestsBuilder.run(): execute(suiteStore.suites) calls executeSuite for
\* every suite in turn; executeSuite calls describe, whose callback calls it
\* for every entry of the suite's cases.
ChainRun ==
  /\ ~chain.started
  /\ chain' = [chain EXCEPT
                 !.started = TRUE,
                 !.blocks = [i \in 1..Len(chain.suiteStore) |->
                               [method |-> chain.suiteBuilders[chain.suiteStore[i]],
                                cases |-> chain.caseStores[chain.suiteStore[i]]]]]
  /\ UNCHANGED <<fn, mock, pc, cur, handles, pre, body, awaited, calls, obs, outcome,
                 verdict, caseNo, stale, frozen, declared, registered, runner, inst,
                 cutState, executed, run, prev, configErrors, hostVars, auto, builder>>

ChainNext ==
  \/ AddSuite
  \/ \E s \in 1..Len(chain.suiteBuilders) : AddCase(s)
  \/ \E c \in 1..Len(chain.caseBuilders) : ChainDoneCase(c)
  \/ \E s \in 1..Len(chain.suiteBuilders) : ChainDoneSuite(s)
  \/ ChainRun

ChainSpec == Init /\ [][ChainNext]_vars

\* The SuiteBuilders doneSuite() was called on, and the CaseBuilders of
\* SuiteBuilder s doneCase() was called on, one entry per call, in call order.
ClosedSuites ==
  LET ds == SelectSeq(chain.log, LAMBDA e : e[1] = "doneSuite")
  IN  [i \in 1..Len(ds) |-> ds[i][2]]

ClosedCases(s) ==
  LET dc == SelectSeq(chain.log,
                      LAMBDA e : e[1] = "doneCase" /\ chain.caseBuilders[e[2]] = s)
  IN  [i \in 1..Len(dc) |-> dc[i][2]]

\* C31: run() registers one describe block per doneSuite() call, in call
\* order, and in the block of a suite one it block per doneCase() call made
\* on a case of that suite, in call order; nothing else is registered.
C31_RegistersClosedSuitesAndCases ==
  chain.started =>
    chain.blocks = [i \in 1..Len(ClosedSuites) |->
                      [method |-> chain.suiteBuilders[ClosedSuites[i]],
                       cases |-> ClosedCases(ClosedSuites[i])]]

\* A case was closed after its suite, a case was started and never closed,
\* and the suite was closed twice.
C31_Witness ==
  /\ chain.started
  /\ Len(chain.blocks) = 2
  /\ Len(chain.blocks[1].cases) = 1
  /\ Len(chain.caseBuilders) = 2
  /\ chain.log[1][1] = "doneSuite"

\* ------------------------------------------------- what a chain leaves behind
\* C32: when executeCase has ended, the queue of one-time behaviours of every
\* collaborator method is empty, on real and on auto-mocked collaborators:
\* chain entries the case did not consume are not there for a later case.
C32_NoChainEntryOutlivesCase ==
  pc = "done" => \A s \in CollabSlots : mock[s].once = <<>>

\* The same for the cases whose finally block was reached.
ChainsEmptiedByRestoration ==
  Finished => \A s \in CollabSlots : mock[s].once = <<>>

\* ------------------------------------------- a self-spy on the method under test
\* The cases of the suites: no self-spy, or up to two self-spies that name
\* the method under test or a method the CUT does not have.
TargetSpyCase ==
  \E ts \in SeqsUpTo({TargetMethod, Absent}, 2) :
    \E exp \in ExpectationsOf(1) :
      RunCase(BuildCase(<<>>, <<>>, BuildSpies(ts), exp))

TargetSpyNext ==
  \/ Execute
  \/ BeforeAll
  \/ TargetSpyCase
  \/ Invoke
  \/ SuiteCaseReported
  \/ \E v \in SuiteValues : ReturnValue(v)
  \/ ThrowSync
  \/ ReturnPromise
  \/ \E o \in {Resolved(v) : v \in SuiteValues} \cup {Rejected} : Settle(o)
  \/ Resume
  \/ StaleEnd

TargetSpySpec == SuiteInit /\ [][TargetSpyNext]_vars

\* What cutInstance[method] is when executeCase binds it, the self-spies of
\* the case being installed.
BoundMethod == NextBehaviour(Now, TargetSlot)

\* The invocation of a case with a self-spy on the method under test calls
\* the replacement: the first configuration the case has for it.
TargetSpyInvoked ==
  (pc = "installed" /\ ConfigsOf(TargetSlot) # <<>>)
    => BoundMethod = ConfiguredBehaviour(ConfigsOf(TargetSlot)[1])

\* C33: executeCase looks the method under test up after the self-spies are
\* installed: the invocation of a case with a self-spy on that method calls
\* the replacement, and the invocation of a case without one, the cases
\* before it having had such a self-spy or not, calls the original method.
C33_TargetLookedUpAfterSelfSpies ==
  pc = "installed" =>
    BoundMethod = IF ConfigsOf(TargetSlot) # <<>>
                  THEN ConfiguredBehaviour(ConfigsOf(TargetSlot)[1])
                  ELSE Original

\* ------------------------------------------- the worklist of createAutoMocks
\* createAutoMocks followed loop iteration by loop iteration. auto.stack is
\* providersToProcess, auto.processed is processedProviders in insertion
\* order, auto.visited lists the classes extractConstructorDependencies was
\* called for.
\* The graphs followed: every parameter is a class, there are at most
\* MaxEdges parameters in all, and the CUT is given alone or with one
\* collaborator class.
ClassParamTypes ==
  {ps \in SeqsUpTo(Classes, MaxDeps) : \A i, j \in 1..Len(ps) : ps[i] = ps[j] => i = j}

WorkGraphs ==
  {g \in [Classes -> ClassParamTypes] :
     /\ \A c \in ConfigProviders : g[c] = <<>>
     /\ Len(g[CutObject]) + Len(g["DepA"]) + Len(g["DepB"]) <= MaxEdges}

WorkProvided == {<<>>, <<"DepB">>}

WorkInit == AutoInitWith(WorkGraphs, WorkProvided)

\* The check of line 27: the provider popped was processed before.
AlreadyProcessedNever(processed, provider) == FALSE

AlreadyProcessed(processed, provider) == provider \in Range(processed)

\* Lines 16-21: the CUT and the provided classes are pushed.
Seed ==
  /\ ~auto.seeded
  /\ auto' = [auto EXCEPT !.seeded = TRUE,
                          !.stack = <<CutObject>> \o auto.provided]
  /\ UNCHANGED <<fn, mock, pc, cur, handles, pre, body, awaited, calls, obs, outcome,
                 verdict, caseNo, stale, frozen, declared, registered, runner, inst,
                 cutState, executed, run, prev, configErrors, hostVars, builder, chain>>

\* One iteration of the while loop (lines 24-56): pop, skip a provider that
\* was processed, else mark it, extract its dependencies and push those not
\* processed yet.
Iterate ==
  /\ auto.seeded
  /\ ~auto.done
  /\ auto.stack # <<>>
  /\ LET provider == auto.stack[Len(auto.stack)]
         rest     == SubSeq(auto.stack, 1, Len(auto.stack) - 1)
     IN  IF AlreadyProcessed(auto.processed, provider)
         THEN auto' = [auto EXCEPT !.stack = rest]
         ELSE LET r == ProcessDependencies(
                         ExtractConstructorDependencies(auto.deps, provider), 1,
                         rest, Append(auto.processed, provider))
              IN  auto' = [auto EXCEPT !.stack = r.stack,
                                       !.processed = r.processed,
                                       !.visited = Append(@, provider)]
  /\ UNCHANGED <<fn, mock, pc, cur, handles, pre, body, awaited, calls, obs, outcome,
                 verdict, caseNo, stale, frozen, declared, registered, runner, inst,
                 cutState, executed, run, prev, configErrors, hostVars, builder, chain>>

\* The loop has ended: the mocks are created and returned (lines 58-95).
Return ==
  /\ auto.seeded
  /\ ~auto.done
  /\ auto.stack = <<>>
  /\ auto' = [auto EXCEPT
                !.mocks = CreateMocks(auto.processed,
                                      {CutObject} \cup Range(auto.provided)),
                !.done = TRUE]
  /\ UNCHANGED <<fn, mock, pc, cur, handles, pre, body, awaited, calls, obs, outcome,
                 verdict, caseNo, stale, frozen, declared, registered, runner, inst,
                 cutState, executed, run, prev, configErrors, hostVars, builder, chain>>

WorkNext == Seed \/ Iterate \/ Return

WorkSpec == WorkInit /\ [][WorkNext]_vars

\* createAutoMocks is synchronous code: it goes on until it returns.
LiveWorkSpec == WorkSpec /\ WF_vars(WorkNext)

\* Every class was visited at most once so far.
VisitedOnce ==
  \A i, j \in 1..Len(auto.visited) : auto.visited[i] = auto.visited[j] => i = j

\* C34: on every constructor-dependency graph, graphs with cycles and with
\* a class that depends on itself included, createAutoMocks returns, and it
\* extracts the dependencies of no class twice.
C34_WorklistTerminates == []VisitedOnce /\ <>auto.done

\* createAutoMocks has returned on a graph in which the CUT depends on
\* itself and DepA and DepB depend on each other, and it visited all three.
C34_Witness ==
  /\ auto.done
  /\ CutObject \in Range(auto.deps[CutObject])
  /\ "DepB" \in Range(auto.deps["DepA"])
  /\ "DepA" \in Range(auto.deps["DepB"])
  /\ Len(auto.visited) = 3

\* The step-by-step loop returns what createAutoMocks returns.
WorklistAgrees ==
  auto.done => auto.mocks = CreateAutoMocks(auto.deps, auto.provided, CutObject)


\* ------------------------------------------------- the handles of a case
\* The distinct targets the configurations of the case name: collaborator
\* methods by provider class and method, module functions by module name
\* and function, self-spied methods by name.
MockTargetsOf(c)   == {<<c.mocks[i].provider, c.mocks[i].method>> : i \in 1..Len(c.mocks)}

ModuleTargetsOf(c) ==
  {<<c.moduleMocks[i].moduleName, c.moduleMocks[i].method>> : i \in 1..Len(c.moduleMocks)}

SpyTargetsOf(c)    == {c.spies[i].method : i \in 1..Len(c.spies)}

\* The handles of each kind equal in number the distinct targets of the kind.
MockHandlesPerTarget   == pc = "installed" => Len(handles.mocks) = Cardinality(MockTargetsOf(cur))

ModuleHandlesPerTarget ==
  pc = "installed" => Len(handles.modules) = Cardinality(ModuleTargetsOf(cur))

SpyHandlesPerTarget    == pc = "installed" => Len(handles.spies) = Cardinality(SpyTargetsOf(cur))

\* C35: the installation of a case returns one restore handle per distinct
\* target: as many handles as the case has distinct (provider, method)
\* groups, distinct (moduleName, method) groups and distinct self-spied
\* methods together, however many configurations a group holds.
C35_OneHandlePerTarget ==
  pc = "installed" =>
    Len(handles.mocks) + Len(handles.modules) + Len(handles.spies)
      = Cardinality(MockTargetsOf(cur)) + Cardinality(ModuleTargetsOf(cur))
          + Cardinality(SpyTargetsOf(cur))

=============================================================================
